---- MODULE Spec2Model ----
(***************************************************************************)
(* A model of analyze_simulation.py: the start of the script, the grade    *)
(* statistics of Figure 1, the position grids of Figure 2, the             *)
(* best-position matcher of Figure 3 and the clinical-record parsers       *)
(* load_all_patient_abg and load_patient_by_group.                         *)
(*                                                                         *)
(* Units.  positions are in tenths (5 is 0.5, 10 is 1.0), ABG values and   *)
(* thresholds in tenths of a dB (208 is 20.8 dB), frequencies in           *)
(* hundredths of a kHz (25 is 0.25 kHz).                                   *)
(*                                                                         *)
(* Floats.  a float is a pair <<num, den>>: den > 0 is the rational        *)
(* num/den, <<0,0>> is NaN and <<1,0>> is +inf.  A sum of a column is      *)
(* taken in row order and every addition rounds to a significand of        *)
(* MantissaBits bits (to nearest, ties to even), as float64 does with 53;  *)
(* means keep their denominator (the row count) and the division,          *)
(* subtraction and comparison are exact, with Python's rules for NaN and   *)
(* inf.                                                                    *)
(***************************************************************************)
EXTENDS Integers, Sequences, FiniteSets, TLC

VARIABLES
    pc,             \* the position of the script
    df,             \* the simulation table (pd.read_csv), a sequence of rows
    grade,          \* the loop variable of the Figure 3 loop
    g_data,         \* the rows of the current grade
    positions,      \* sorted distinct PosX of g_data
    i, j,           \* the indices of the scan loops (0-based, as in the code)
    error_map,      \* the error grid of the current grade
    min_error,      \* the running minimum
    best_pos,       \* the running best position <<px, py>>
    best_positions, \* grade -> [pos, error]
    parser,         \* which parser runs: "all" (load_all_patient_abg) or
                    \* "group" (load_patient_by_group)
    block,          \* the patient block being parsed: [id, pre]
    side,           \* index of the side loop: 1 is ('R','R_B','R_A'), 2 is L
    bone, air,      \* the mappings frequency -> threshold of the side
    nread,          \* lines of pre_op read in this pass over them
    abg_values,     \* the ABG list of the side
    freqs_used,     \* the frequencies (Hz) of abg_values (all-patient parser)
    all_patients,   \* the records of load_all_patient_abg
    all_patient_abg,\* line 187
    icw_patients,   \* the ICW records of load_patient_by_group
    cwd_patients,   \* the CWD records of load_patient_by_group
    content,        \* the clinical report: a sequence of items (section
                    \* markers and patient blocks)
    patient_blocks, \* the blocks of the text being parsed, as the indices
                    \* of their items in content
    bidx,           \* the index of the block loop in patient_blocks
    icw_src,        \* history: the items that added a record to icw_patients
    cwd_src,        \* history: the items that added a record to cwd_patients
    csv_files,      \* whether Experiment_Full_*.csv matches a file
    csv_table,      \* the rows of the newest matching file
    patient_file,   \* whether the clinical text file exists
    output_dir,     \* whether Analysis_Results was created
    sim_means,      \* Figure 1: the mean of each grade
    sim_stds,       \* Figure 1: the std of each grade, held as its square
    heatmap_data,   \* Figure 2: the grid of the current grade
    figures,        \* the figures saved
    grids,          \* history: grade -> [positions, heatmap_data]
    prev_grids,     \* history: grids of the previous run of the script
    run             \* history: which run of the script this is

mvars == <<df, grade, g_data, positions, i, j, error_map, min_error, best_pos,
           best_positions>>

xvars == <<parser, block, side, bone, air, nread, abg_values, freqs_used,
           all_patients, all_patient_abg, icw_patients>>

dvars == <<cwd_patients, content, patient_blocks, bidx, icw_src, cwd_src>>

rvars == <<csv_files, csv_table, patient_file, output_dir, sim_means, sim_stds,
           heatmap_data, figures, grids, prev_grids, run>>

vars == <<pc, mvars, xvars, dvars, rvars>>

----------------------------------------------------------------------------
(* Bounds and input alphabets of the simulation table.                     *)

MaxRows == 3

GradeVals == 0 .. 4
PosPairs == {<<10, 5>>, <<5, 10>>, <<10, 10>>}
AbgVals == {200, 216}

RowDomain ==
    {[Grade |-> g, PosX |-> p[1], PosY |-> p[2], AvgTotal |-> v] :
        g \in GradeVals, p \in PosPairs, v \in AbgVals}

RowKey(r) == ((r.Grade * 100 + r.PosX) * 100 + r.PosY) * 1000 + r.AvgTotal

RECURSIVE SortedTables(_)
SortedTables(k) ==
    IF k = 0 THEN {<<>>}
    ELSE UNION {{Append(s, r) :
                    r \in {q \in RowDomain :
                              Len(s) = 0 \/ RowKey(s[Len(s)]) <= RowKey(q)}} :
                s \in SortedTables(k - 1)}

\* The tables read by the matcher: up to MaxRows rows, listed in key order.
\* The matcher uses the table through masks, unique() and means; the sums
\* of these AvgTotal values need fewer than MantissaBits bits, so no
\* addition rounds and the order of the rows does not matter here.
Tables == UNION {SortedTables(k) : k \in 0 .. MaxRows}

----------------------------------------------------------------------------
(* Floats.                                                                 *)

NaN == <<0, 0>>
Inf == <<1, 0>>
IsNaN(a) == a[2] = 0 /\ a[1] = 0
IsInf(a) == a[2] = 0 /\ a[1] # 0
IsFinite(a) == a[2] > 0

Abs(n) == IF n < 0 THEN -n ELSE n

\* a < b on floats: False when either is NaN.
FloatLess(a, b) ==
    IF IsNaN(a) \/ IsNaN(b) THEN FALSE
    ELSE IF IsInf(a) THEN FALSE
    ELSE IF IsInf(b) THEN TRUE
    ELSE a[1] * b[2] < b[1] * a[2]

\* a == b on floats that are not NaN.
FloatEq(a, b) ==
    IF IsNaN(a) \/ IsNaN(b) THEN FALSE
    ELSE IF IsInf(a) \/ IsInf(b) THEN IsInf(a) /\ IsInf(b)
    ELSE a[1] * b[2] = b[1] * a[2]

\* The significand of a float, scaled down from the 53 bits of float64.
MantissaBits == 10

\* The spacing of the floats around x >= 0.
RECURSIVE Ulp(_)
Ulp(x) == IF x < 2 ^ MantissaBits THEN 1 ELSE 2 * Ulp(x \div 2)

\* The float nearest to x >= 0, ties to the even significand.
RoundToEven(x) ==
    LET q == Ulp(x)
        lo == (x \div q) * q
        rem == x - lo
    IN IF 2 * rem < q THEN lo
       ELSE IF 2 * rem > q THEN lo + q
       ELSE IF (x \div q) % 2 = 0 THEN lo ELSE lo + q

\* a + b on floats.
FloatAdd(a, b) == RoundToEven(a + b)

\* The sum of a column, accumulated in row order.
RECURSIVE SumFrom(_, _)
SumFrom(acc, rows) ==
    IF rows = <<>> THEN acc
    ELSE SumFrom(FloatAdd(acc, rows[1].AvgTotal), Tail(rows))

SumAvgTotal(rows) == SumFrom(0, rows)

\* Series.mean(): NaN on an empty selection.
Mean(rows) == IF rows = <<>> THEN NaN ELSE <<SumAvgTotal(rows), Len(rows)>>

\* abs(sim_val - clinical_target)
AbsError(sim_val, target) ==
    IF IsNaN(sim_val) THEN NaN
    ELSE <<Abs(sim_val[1] - target * sim_val[2]), sim_val[2]>>

----------------------------------------------------------------------------
(* The simulation table and the reference table.                           *)

\* df_perf = df[df['Grade'] > 0]
df_perf(d) == LET Keep(r) == r.Grade > 0 IN SelectSeq(d, Keep)

\* df_perf[df_perf['Grade'] == grade]
GDataAnyGrade(d, g) == df_perf(d)
GData(d, g) == LET Keep(r) == r.Grade = g IN SelectSeq(df_perf(d), Keep)

\* g_data[(g_data['PosX'] == px) & (g_data['PosY'] == py)]
CellRows(rows, px, py) ==
    LET Keep(r) == r.PosX = px /\ r.PosY = py IN SelectSeq(rows, Keep)

RECURSIVE SortSet(_)
SortSet(S) ==
    IF S = {} THEN <<>>
    ELSE LET m == CHOOSE x \in S : \A y \in S : x <= y
         IN <<m>> \o SortSet(S \ {m})

\* sorted(g_data['PosX'].unique())
SortedPosX(rows) == SortSet({rows[k].PosX : k \in 1 .. Len(rows)})

\* patient_freq_abg[grade]['avg_abg']
ClinicalTarget(g) ==
    CASE g = 1 -> 100
      [] g = 2 -> 208
      [] g = 3 -> 325
      [] g = 4 -> 192

Grades == <<1, 2, 3, 4>>

\* best_pos = (0.5, 0.5)
DefaultBestPos == <<5, 5>>

Elems(s) == {s[k] : k \in 1 .. Len(s)}

----------------------------------------------------------------------------
(* Figure 3: the best-position matcher.                                    *)

\* error < min_error
ImprovesOnLE(error, running) == ~ IsNaN(error) /\ ~ FloatLess(running, error)
ImprovesOn(error, running) == FloatLess(error, running)

\* The scan order: py = positions[i] in the outer loop, px = positions[j]
\* in the inner loop.
ScanPx(pos, ii, jj) == pos[jj + 1]
ScanPy(pos, ii, jj) == pos[ii + 1]

ZeroMap(n) == [r \in 0 .. n - 1 |-> [c \in 0 .. n - 1 |-> <<0, 1>>]]

MatchStart ==
    /\ pc = "fig3"
    /\ LET gd == GData(df, grade)
           ps == SortedPosX(gd)
       IN /\ g_data' = gd
          /\ positions' = ps
          /\ error_map' = ZeroMap(Len(ps))
          /\ pc' = IF Len(ps) = 0 THEN "record" ELSE "scan"
    /\ min_error' = Inf
    /\ best_pos' = DefaultBestPos
    /\ i' = 0
    /\ j' = 0
    /\ UNCHANGED <<df, grade, best_positions>>
    /\ UNCHANGED <<xvars, dvars, rvars>>

MatchCell ==
    /\ pc = "scan"
    /\ LET n == Len(positions)
           py == ScanPy(positions, i, j)
           px == ScanPx(positions, i, j)
           sim_val == Mean(CellRows(g_data, px, py))
           error == AbsError(sim_val, ClinicalTarget(grade))
       IN /\ error_map' = [error_map EXCEPT ![n - 1 - i][j] = error]
          /\ IF ImprovesOn(error, min_error)
             THEN min_error' = error /\ best_pos' = <<px, py>>
             ELSE UNCHANGED <<min_error, best_pos>>
          /\ IF j + 1 < n THEN /\ j' = j + 1
                               /\ UNCHANGED <<i, pc>>
             ELSE IF i + 1 < n THEN /\ i' = i + 1
                                    /\ j' = 0
                                    /\ UNCHANGED pc
             ELSE /\ pc' = "record"
                  /\ UNCHANGED <<i, j>>
    /\ UNCHANGED <<df, grade, g_data, positions, best_positions>>
    /\ UNCHANGED <<xvars, dvars, rvars>>

MatchRecord ==
    /\ pc = "record"
    /\ best_positions' =
          [g \in DOMAIN best_positions \cup {grade} |->
              IF g = grade THEN [pos |-> best_pos, error |-> min_error]
              ELSE best_positions[g]]
    /\ pc' = "plot"
    /\ UNCHANGED <<df, grade, g_data, positions, i, j, error_map, min_error,
                   best_pos>>
    /\ UNCHANGED <<xvars, dvars, rvars>>

\* best_j = positions.index(best_pos[0]); best_i = ... index(best_pos[1]):
\* list.index raises ValueError on a value that is not in the list, which
\* ends the script.
MatchPlot ==
    /\ pc = "plot"
    /\ pc' = IF best_pos[1] \in Elems(positions) /\ best_pos[2] \in Elems(positions)
             THEN (IF grade < Grades[Len(Grades)] THEN "fig3" ELSE "done")
             ELSE "ValueError"
    /\ grade' = IF pc' = "fig3" THEN grade + 1 ELSE grade
    /\ UNCHANGED <<df, g_data, positions, i, j, error_map, min_error, best_pos,
                   best_positions>>
    /\ UNCHANGED <<xvars, dvars, rvars>>

EmptyMap == [f \in {} |-> NaN]

\* The matcher's variables before Figure 3.
MatcherIdle ==
    /\ df = <<>>
    /\ grade = Grades[1]
    /\ g_data = <<>>
    /\ positions = <<>>
    /\ i = 0
    /\ j = 0
    /\ error_map = ZeroMap(0)
    /\ min_error = Inf
    /\ best_pos = DefaultBestPos
    /\ best_positions = [g \in {} |-> 0]

\* The parsers' variables before a parse.
ParserIdle ==
    /\ parser = "all"
    /\ block = [id |-> "", pre |-> FALSE]
    /\ side = 1
    /\ bone = EmptyMap
    /\ air = EmptyMap
    /\ nread = 0
    /\ abg_values = <<>>
    /\ freqs_used = <<>>
    /\ all_patients = <<>>
    /\ all_patient_abg = <<>>
    /\ icw_patients = <<>>

\* The script's variables outside a run of it.
RunIdle ==
    /\ csv_files = FALSE
    /\ csv_table = <<>>
    /\ patient_file = FALSE
    /\ output_dir = FALSE
    /\ sim_means = <<>>
    /\ sim_stds = <<>>
    /\ heatmap_data = ZeroMap(0)
    /\ figures = {}
    /\ grids = [g \in {} |-> 0]
    /\ prev_grids = [g \in {} |-> 0]
    /\ run = 1

\* The document parse's variables before a parse.
DocIdle ==
    /\ cwd_patients = <<>>
    /\ content = <<>>
    /\ patient_blocks = <<>>
    /\ bidx = 1
    /\ icw_src = {}
    /\ cwd_src = {}

MatcherInit ==
    /\ pc = "fig3"
    /\ ParserIdle
    /\ RunIdle
    /\ DocIdle
    /\ df \in Tables
    /\ grade = Grades[1]
    /\ g_data = <<>>
    /\ positions = <<>>
    /\ i = 0
    /\ j = 0
    /\ error_map = ZeroMap(0)
    /\ min_error = Inf
    /\ best_pos = DefaultBestPos
    /\ best_positions = [g \in {} |-> 0]

MatcherNext == MatchStart \/ MatchCell \/ MatchRecord \/ MatchPlot

SpecMatcher == MatcherInit /\ [][MatcherNext]_vars

----------------------------------------------------------------------------
(* The clinical report.  A line of a pre-operative section is the set of   *)
(* prefix labels it contains and its '|'-separated parts that contain      *)
(* 'kHz=', each part the text before 'kHz=' (f: its last word) and the     *)
(* text between 'kHz=' and 'dB' (v).                                       *)

MaxLines == 2

FreqTexts == {"1", "2", "8", "x"}
ValTexts == {"10", "30", "nan", "NaN", "x"}

\* The parts read: a well-formed part at 1, 2 or 8 kHz, a part whose value
\* is the literal nan, one whose value is spelled NaN, and parts whose
\* value or frequency is not a number.
Parts ==
    {[f |-> "1", v |-> "10"], [f |-> "1", v |-> "30"],
     [f |-> "2", v |-> "10"], [f |-> "2", v |-> "30"],
     [f |-> "8", v |-> "10"], [f |-> "8", v |-> "30"],
     [f |-> "1", v |-> "nan"], [f |-> "2", v |-> "NaN"],
     [f |-> "1", v |-> "x"], [f |-> "x", v |-> "10"]}

PartSeqs == {<<>>} \cup {<<t>> : t \in Parts} \cup {<<t, u>> : t, u \in Parts}

LabelSets == {{}, {"R_B"}, {"R_A"}, {"L_B"}, {"L_A"}, {"R_B", "R_A"}}

Lines == {[labels |-> l, parts |-> ps] : l \in LabelSets, ps \in PartSeqs}

\* float(text): the texts float() accepts.  float("nan") and float("NaN")
\* are both NaN; float("x") raises ValueError.
FloatRaises(text) == text \notin {"1", "2", "8", "10", "30", "nan", "NaN"}

FloatOf(text) ==
    CASE text = "1" -> <<1, 1>>
      [] text = "2" -> <<2, 1>>
      [] text = "8" -> <<8, 1>>
      [] text = "10" -> <<10, 1>>
      [] text = "30" -> <<30, 1>>
      [] OTHER -> NaN

\* The key of a frequency in a dict: hundredths of a kHz.
FreqKey(text) == FloatOf(text)[1] * 100

\* [0.25, 0.5, 1, 2, 3, 4]
CanonicalFreqsWith8 == <<25, 50, 100, 200, 300, 400, 800>>
CanonicalFreqs == <<25, 50, 100, 200, 300, 400>>

\* [('R', 'R_B', 'R_A'), ('L', 'L_B', 'L_A')]
Sides == <<[side |-> "R", prefix_b |-> "R_B", prefix_a |-> "R_A"],
           [side |-> "L", prefix_b |-> "L_B", prefix_a |-> "L_A"]>>

\* d[key] = value
Put(d, key, value) ==
    [f \in DOMAIN d \cup {key} |-> IF f = key THEN value ELSE d[f]]

\* a - b on floats (thresholds have denominator 1).
FloatSubSwapped(a, b) ==
    IF IsNaN(a) \/ IsNaN(b) THEN NaN ELSE <<b[1] - a[1], 1>>
FloatSub(a, b) ==
    IF IsNaN(a) \/ IsNaN(b) THEN NaN ELSE <<a[1] - b[1], 1>>

\* One part of parse_line (lines 142-149): a part whose frequency or value
\* float() rejects raises inside the try and is passed over.
ParsePartKeepsNan(values, part) ==
    IF FloatRaises(part.v) \/ FloatRaises(part.f) THEN values
    ELSE Put(values, FreqKey(part.f), FloatOf(part.v))
ParsePartAbortsLine(values, part) ==
    IF FloatRaises(part.f) \/ FloatRaises(part.v) THEN EmptyMap
    ELSE IF part.v # "nan" THEN Put(values, FreqKey(part.f), FloatOf(part.v))
    ELSE values
ParsePart(values, part) ==
    IF part.v # "nan"
    THEN (IF FloatRaises(part.v) \/ FloatRaises(part.f) THEN values
          ELSE Put(values, FreqKey(part.f), FloatOf(part.v)))
    ELSE values

RECURSIVE ParseParts(_, _)
ParseParts(values, parts) ==
    IF parts = <<>> THEN values
    ELSE ParseParts(ParsePart(values, Head(parts)), Tail(parts))

\* parse_line(line, prefix)
parse_line(line, prefix) ==
    IF prefix \in line.labels THEN ParseParts(EmptyMap, line.parts) ELSE EmptyMap

\* One part of the group parser (lines 372-379): the frequency is
\* converted first, then the value is compared with 'nan' and converted.
GroupParsePart(target, part) ==
    IF FloatRaises(part.f) THEN target
    ELSE IF part.v # "nan"
    THEN (IF FloatRaises(part.v) THEN target
          ELSE Put(target, FreqKey(part.f), FloatOf(part.v)))
    ELSE target

RECURSIVE GroupParseParts(_, _)
GroupParseParts(target, parts) ==
    IF parts = <<>> THEN target
    ELSE GroupParseParts(GroupParsePart(target, Head(parts)), Tail(parts))

\* The loop of lines 167-171 over a list of frequencies: the pair of lists
\* <<abg_values, freqs_used>>.
RECURSIVE AbgLoop(_, _, _)
AbgLoop(b, a, freqs) ==
    IF freqs = <<>> THEN <<<<>>, <<>>>>
    ELSE LET rest == AbgLoop(b, a, Tail(freqs))
             freq == Head(freqs)
         IN IF freq \in DOMAIN b /\ freq \in DOMAIN a
            THEN << <<FloatSub(a[freq], b[freq])>> \o rest[1],
                    <<freq * 10>> \o rest[2] >>
            ELSE rest

\* [air[f] - bone[f] for f in [0.25, 0.5, 1, 2, 3, 4] if f in bone and f in air]
GroupAbgValues(b, a) == AbgLoop(b, a, CanonicalFreqs)[1]

RECURSIVE SumNum(_)
SumNum(values) == IF values = <<>> THEN 0 ELSE values[1][1] + SumNum(Tail(values))

\* np.mean of a non-empty list: NaN as soon as one element is NaN.
NpMeanOverSix(values) ==
    IF \E k \in 1 .. Len(values) : IsNaN(values[k]) THEN NaN
    ELSE <<SumNum(values), Len(CanonicalFreqs)>>
NpMean(values) ==
    IF \E k \in 1 .. Len(values) : IsNaN(values[k]) THEN NaN
    ELSE <<SumNum(values), Len(values)>>

\* Lines 157-161: what one line of pre_op does to the mappings of side sd.
LineStep(bn, ar, line, sd) ==
    << IF Sides[sd].prefix_b \in line.labels
       THEN parse_line(line, Sides[sd].prefix_b) ELSE bn,
       IF Sides[sd].prefix_a \in line.labels
       THEN parse_line(line, Sides[sd].prefix_a) ELSE ar >>

\* Lines 164-180: the records (none or one) a side appends.
SideRecords(bn, ar, id, sd) ==
    IF bn # EmptyMap /\ ar # EmptyMap
    THEN LET r == AbgLoop(bn, ar, CanonicalFreqs)
         IN IF r[1] # <<>>
            THEN << [id |-> <<id, Sides[sd].side>>,
                     avg_abg |-> NpMean(r[1]),
                     abg_values |-> r[1],
                     freqs |-> r[2]] >>
            ELSE <<>>
    ELSE <<>>

\* Lines 368-379: what one line of pre_op does in the group parser.
GroupLineStep(bn, ar, line, sd) ==
    << IF Sides[sd].prefix_b \in line.labels
       THEN GroupParseParts(bn, line.parts) ELSE bn,
       IF Sides[sd].prefix_a \in line.labels
       THEN GroupParseParts(ar, line.parts) ELSE ar >>

\* Lines 380-383: the records (none or one) a side appends.
GroupSideRecords(bn, ar) ==
    IF bn # EmptyMap /\ ar # EmptyMap
    THEN LET v == GroupAbgValues(bn, ar)
         IN IF v # <<>> THEN <<[avg_abg |-> NpMean(v), abg_values |-> v]>> ELSE <<>>
    ELSE <<>>

----------------------------------------------------------------------------
(* The extraction of one patient block, line by line.  Each pass over      *)
(* pre_op (one per side) reads its lines as they come; a line carries      *)
(* labels of one side only, so what a pass does depends on the lines of   *)
(* its own side alone and the two passes read independent lines.           *)

\* Lines 128-134 and 153-155: the block's identifier, the test for the
\* pre-operative marker, the start of the first side.
XBlockStart ==
    /\ pc = "x_block"
    /\ pc' = IF block.pre THEN "x_lines" ELSE "x_end"
    /\ side' = 1
    /\ bone' = EmptyMap
    /\ air' = EmptyMap
    /\ nread' = 0
    /\ UNCHANGED <<parser, block, abg_values, freqs_used, all_patients,
                   all_patient_abg, icw_patients>>
    /\ UNCHANGED <<mvars, dvars, rvars>>

\* Lines 157-161: one line of pre_op.
XReadLine ==
    /\ pc = "x_lines"
    /\ nread < MaxLines
    /\ \E line \in Lines :
          LET r == LineStep(bone, air, line, side)
          IN bone' = r[1] /\ air' = r[2]
    /\ nread' = nread + 1
    /\ UNCHANGED <<pc, parser, block, side, abg_values, freqs_used, all_patients,
                   all_patient_abg, icw_patients>>
    /\ UNCHANGED <<mvars, dvars, rvars>>

\* Lines 163-180: the ABG of the side and its record.
XSideAbg ==
    /\ pc = "x_lines"
    /\ IF bone # EmptyMap /\ air # EmptyMap
       THEN LET r == AbgLoop(bone, air, CanonicalFreqs)
            IN abg_values' = r[1] /\ freqs_used' = r[2]
       ELSE UNCHANGED <<abg_values, freqs_used>>
    /\ all_patients' = all_patients \o SideRecords(bone, air, block.id, side)
    /\ pc' = "x_side_done"
    /\ UNCHANGED <<parser, block, side, bone, air, nread, all_patient_abg,
                   icw_patients>>
    /\ UNCHANGED <<mvars, dvars, rvars>>

\* Line 153: the next side, or the end of the block.
XNextSide ==
    /\ pc = "x_side_done"
    /\ IF side < Len(Sides)
       THEN /\ side' = side + 1
            /\ bone' = EmptyMap
            /\ air' = EmptyMap
            /\ nread' = 0
            /\ pc' = "x_lines"
       ELSE /\ pc' = "x_end"
            /\ UNCHANGED <<side, bone, air, nread>>
    /\ UNCHANGED <<parser, block, abg_values, freqs_used, all_patients,
                   all_patient_abg, icw_patients>>
    /\ UNCHANGED <<mvars, dvars, rvars>>

\* Line 187: all_patient_abg.
XAllPatientAbg ==
    /\ pc = "x_end"
    /\ all_patient_abg' =
          LET Keep(p) == ~ IsNaN(p.avg_abg)
              kept == SelectSeq(all_patients, Keep)
          IN [k \in 1 .. Len(kept) |-> kept[k].avg_abg]
    /\ pc' = "x_done"
    /\ UNCHANGED <<parser, block, side, bone, air, nread, abg_values, freqs_used,
                   all_patients, icw_patients>>
    /\ UNCHANGED <<mvars, dvars, rvars>>

\* Lines 363-367 of the group parser.
GBlockStart ==
    /\ pc = "g_block"
    /\ pc' = IF block.pre THEN "g_lines" ELSE "g_done"
    /\ side' = 1
    /\ bone' = EmptyMap
    /\ air' = EmptyMap
    /\ nread' = 0
    /\ UNCHANGED <<parser, block, abg_values, freqs_used, all_patients,
                   all_patient_abg, icw_patients>>
    /\ UNCHANGED <<mvars, dvars, rvars>>

\* Lines 368-379: one line of pre_op; its parts are added to the mappings.
GReadLine ==
    /\ pc = "g_lines"
    /\ nread < MaxLines
    /\ \E line \in Lines :
          LET r == GroupLineStep(bone, air, line, side)
          IN bone' = r[1] /\ air' = r[2]
    /\ nread' = nread + 1
    /\ UNCHANGED <<pc, parser, block, side, abg_values, freqs_used, all_patients,
                   all_patient_abg, icw_patients>>
    /\ UNCHANGED <<mvars, dvars, rvars>>

\* Lines 380-383.
GSideAbg ==
    /\ pc = "g_lines"
    /\ IF bone # EmptyMap /\ air # EmptyMap
       THEN abg_values' = GroupAbgValues(bone, air)
       ELSE UNCHANGED abg_values
    /\ icw_patients' = icw_patients \o GroupSideRecords(bone, air)
    /\ pc' = "g_side_done"
    /\ UNCHANGED <<parser, block, side, bone, air, nread, freqs_used, all_patients,
                   all_patient_abg>>
    /\ UNCHANGED <<mvars, dvars, rvars>>

\* Line 366: the next side, or the end of the block.
GNextSide ==
    /\ pc = "g_side_done"
    /\ IF side < Len(Sides)
       THEN /\ side' = side + 1
            /\ bone' = EmptyMap
            /\ air' = EmptyMap
            /\ nread' = 0
            /\ pc' = "g_lines"
       ELSE /\ pc' = "g_done"
            /\ UNCHANGED <<side, bone, air, nread>>
    /\ UNCHANGED <<parser, block, abg_values, freqs_used, all_patients,
                   all_patient_abg, icw_patients>>
    /\ UNCHANGED <<mvars, dvars, rvars>>

ExtractInit ==
    /\ MatcherIdle
    /\ RunIdle
    /\ DocIdle
    /\ parser \in {"all", "group"}
    /\ pc = IF parser = "all" THEN "x_block" ELSE "g_block"
    /\ block \in {[id |-> "P1", pre |-> p] : p \in BOOLEAN}
    /\ side = 1
    /\ bone = EmptyMap
    /\ air = EmptyMap
    /\ nread = 0
    /\ abg_values = <<>>
    /\ freqs_used = <<>>
    /\ all_patients = <<>>
    /\ all_patient_abg = <<>>
    /\ icw_patients = <<>>

ExtractNext ==
    \/ XBlockStart \/ XReadLine \/ XSideAbg \/ XNextSide \/ XAllPatientAbg
    \/ GBlockStart \/ GReadLine \/ GSideAbg \/ GNextSide

SpecExtract == ExtractInit /\ [][ExtractNext]_vars

----------------------------------------------------------------------------
(* The clinical report as a whole.  The report is a sequence of items: a   *)
(* section marker ('【 ICW', '【 CWD') or a patient block (what follows a    *)
(* '━...\n【환자 ' header: the patient id, whether '[수술전]' occurs in it,  *)
(* and the lines of its pre-operative section).  The text of a marker that *)
(* follows a block belongs to the chunk of that block and holds no prefix  *)
(* label, so it changes nothing of what the block yields.                  *)

MaxItems == 3

Part(f, v) == [f |-> f, v |-> v]
LineOf(label, parts) == [labels |-> {label}, parts |-> parts]

\* The pre-operative sections read: none, the right ear, both ears, both
\* ears with malformed parts (R_B: a part that float() rejects between two
\* good ones; L_B: nothing but a rejected part), a right ear whose R_B
\* label comes a second time on a line with nothing but a rejected part,
\* and both ears with parts whose value is the literal nan.
DocLineSeqs ==
    { <<>>,
      << LineOf("R_B", <<Part("1", "10"), Part("2", "10")>>),
         LineOf("R_A", <<Part("1", "30"), Part("2", "30")>>) >>,
      << LineOf("R_B", <<Part("1", "10")>>), LineOf("R_A", <<Part("1", "30")>>),
         LineOf("L_B", <<Part("2", "10")>>), LineOf("L_A", <<Part("2", "10")>>) >>,
      << LineOf("R_B", <<Part("1", "10"), Part("x", "10"), Part("2", "10")>>),
         LineOf("R_A", <<Part("1", "30"), Part("2", "x"), Part("2", "30")>>),
         LineOf("L_B", <<Part("1", "x")>>),
         LineOf("L_A", <<Part("1", "30")>>) >>,
      << LineOf("R_B", <<Part("1", "10")>>), LineOf("R_A", <<Part("1", "30")>>),
         LineOf("R_B", <<Part("x", "10")>>) >>,
      << LineOf("R_B", <<Part("1", "10"), Part("2", "nan")>>),
         LineOf("R_A", <<Part("1", "30"), Part("2", "30")>>),
         LineOf("L_B", <<Part("1", "nan")>>),
         LineOf("L_A", <<Part("1", "30")>>) >> }

Marker(kind) == [kind |-> kind, id |-> "", pre |-> FALSE, lines |-> <<>>]
PatientBlock(pre, lines) ==
    [kind |-> "block", id |-> "P1", pre |-> pre, lines |-> lines]

Items ==
    {Marker("ICW"), Marker("CWD")}
      \cup {PatientBlock(TRUE, l) : l \in DocLineSeqs}
      \cup {PatientBlock(FALSE, l) : l \in {ls \in DocLineSeqs : Len(ls) = 2}}

Documents == UNION {[1 .. n -> Items] : n \in 0 .. MaxItems}

Min(S) == CHOOSE m \in S : \A n \in S : m <= n

\* The occurrences of a marker among the items lo .. hi of a text.
Occurrences(doc, lo, hi, kind) == {k \in lo .. hi : doc[k].kind = kind}

\* text.split(marker)[1]: the bounds of what lies between the first and
\* the second occurrence of the marker (or the end of the text).
SplitSecond(doc, lo, hi, kind) ==
    LET first == Min(Occurrences(doc, lo, hi, kind))
        later == Occurrences(doc, first + 1, hi, kind)
    IN <<first + 1, IF later = {} THEN hi ELSE Min(later) - 1>>

\* text.split(marker)[0]: the bounds of what precedes the first occurrence.
SplitFirst(doc, lo, hi, kind) ==
    LET occ == Occurrences(doc, lo, hi, kind)
    IN <<lo, IF occ = {} THEN hi ELSE Min(occ) - 1>>

\* re.split(r'━+\n【환자 ', text)[1:]: the blocks of a text, in order.
BlocksIn(doc, lo, hi) == SortSet(Occurrences(doc, lo, hi, "block"))

\* Line 359: icw_section.
IcwSection(doc) ==
    LET rest == SplitSecond(doc, 1, Len(doc), "ICW")
    IN IF Occurrences(doc, 1, Len(doc), "CWD") # {}
       THEN SplitFirst(doc, rest[1], rest[2], "CWD")
       ELSE rest

\* Line 389: cwd_section.
CwdSection(doc) == SplitSecond(doc, 1, Len(doc), "CWD")

\* Lines 156-161: the loop over the lines of pre_op for one side.
RECURSIVE ReadLines(_, _, _, _)
ReadLines(bn, ar, lines, sd) ==
    IF lines = <<>> THEN <<bn, ar>>
    ELSE LET r == LineStep(bn, ar, Head(lines), sd)
         IN ReadLines(r[1], r[2], Tail(lines), sd)

\* Lines 153-180: what a block whose pre_op was found appends for one
\* side, and for both.
BlockSideRecords(b, sd) ==
    LET m == ReadLines(EmptyMap, EmptyMap, b.lines, sd)
    IN SideRecords(m[1], m[2], b.id, sd)

BlockRecords(b) == BlockSideRecords(b, 1) \o BlockSideRecords(b, 2)

\* Lines 366-383 (and 393-413): the same for the group parser.
RECURSIVE GroupReadLines(_, _, _, _)
GroupReadLines(bn, ar, lines, sd) ==
    IF lines = <<>> THEN <<bn, ar>>
    ELSE LET r == GroupLineStep(bn, ar, Head(lines), sd)
         IN GroupReadLines(r[1], r[2], Tail(lines), sd)

GroupBlockSideRecords(b, sd) ==
    LET m == GroupReadLines(EmptyMap, EmptyMap, b.lines, sd)
    IN GroupSideRecords(m[1], m[2])

GroupBlockRecords(b) == GroupBlockSideRecords(b, 1) \o GroupBlockSideRecords(b, 2)

\* Lines 131-132: 'continue' goes on with the block after block k of n.
AfterBreak(k, n) == n + 1
AfterContinue(k, n) == k + 1

\* Where the block loop stands once bidx is b: in the loop or past it.
LoopPc(b, blocks, inside, past) == IF b > Len(blocks) THEN past ELSE inside

\* Lines 119-123 of load_all_patient_abg.
DSplit ==
    /\ pc = "d_split"
    /\ patient_blocks' = BlocksIn(content, 1, Len(content))
    /\ bidx' = 1
    /\ pc' = LoopPc(1, patient_blocks', "d_block", "d_filter")
    /\ UNCHANGED <<cwd_patients, content, icw_src, cwd_src>>
    /\ UNCHANGED <<mvars, xvars, rvars>>

\* Lines 125-182: one block.  Nothing in the body raises once the marker
\* was found, so the handler of lines 181-182 is never entered.
DBlock ==
    /\ pc = "d_block"
    /\ LET b == content[patient_blocks[bidx]]
       IN IF ~ b.pre
          THEN /\ bidx' = AfterContinue(bidx, Len(patient_blocks))
               /\ UNCHANGED all_patients
          ELSE /\ bidx' = bidx + 1
               /\ all_patients' = all_patients \o BlockRecords(b)
    /\ pc' = LoopPc(bidx', patient_blocks, "d_block", "d_filter")
    /\ UNCHANGED <<parser, block, side, bone, air, nread, abg_values, freqs_used,
                   all_patient_abg, icw_patients>>
    /\ UNCHANGED <<cwd_patients, content, patient_blocks, icw_src, cwd_src>>
    /\ UNCHANGED <<mvars, rvars>>

\* Lines 186-187: all_patients and all_patient_abg.
DFilter ==
    /\ pc = "d_filter"
    /\ all_patient_abg' =
          LET Keep(p) == ~ IsNaN(p.avg_abg)
              kept == SelectSeq(all_patients, Keep)
          IN [k \in 1 .. Len(kept) |-> kept[k].avg_abg]
    /\ pc' = "g_icw"
    /\ UNCHANGED <<parser, block, side, bone, air, nread, abg_values, freqs_used,
                   all_patients, icw_patients>>
    /\ UNCHANGED <<mvars, dvars, rvars>>

\* Lines 358-360 of load_patient_by_group.
GIcwSplit ==
    /\ pc = "g_icw"
    /\ IF Occurrences(content, 1, Len(content), "ICW") # {}
       THEN /\ patient_blocks' =
                  LET sec == IcwSection(content)
                  IN BlocksIn(content, sec[1], sec[2])
            /\ bidx' = 1
            /\ pc' = LoopPc(1, patient_blocks', "g_icw_block", "g_cwd")
       ELSE /\ pc' = "g_cwd"
            /\ UNCHANGED <<patient_blocks, bidx>>
    /\ UNCHANGED <<cwd_patients, content, icw_src, cwd_src>>
    /\ UNCHANGED <<mvars, xvars, rvars>>

\* Lines 361-385: one block of the ICW section.
GIcwBlock ==
    /\ pc = "g_icw_block"
    /\ LET k == patient_blocks[bidx]
           recs == IF content[k].pre THEN GroupBlockRecords(content[k]) ELSE <<>>
       IN /\ icw_patients' = icw_patients \o recs
          /\ icw_src' = IF recs # <<>> THEN icw_src \cup {k} ELSE icw_src
    /\ bidx' = bidx + 1
    /\ pc' = LoopPc(bidx', patient_blocks, "g_icw_block", "g_cwd")
    /\ UNCHANGED <<parser, block, side, bone, air, nread, abg_values, freqs_used,
                   all_patients, all_patient_abg>>
    /\ UNCHANGED <<cwd_patients, content, patient_blocks, cwd_src>>
    /\ UNCHANGED <<mvars, rvars>>

\* Lines 388-390.
GCwdSplit ==
    /\ pc = "g_cwd"
    /\ IF Occurrences(content, 1, Len(content), "CWD") # {}
       THEN /\ patient_blocks' =
                  LET sec == CwdSection(content)
                  IN BlocksIn(content, sec[1], sec[2])
            /\ bidx' = 1
            /\ pc' = LoopPc(1, patient_blocks', "g_cwd_block", "d_done")
       ELSE /\ pc' = "d_done"
            /\ UNCHANGED <<patient_blocks, bidx>>
    /\ UNCHANGED <<cwd_patients, content, icw_src, cwd_src>>
    /\ UNCHANGED <<mvars, xvars, rvars>>

\* Lines 391-415: one block of the CWD section.
GCwdBlock ==
    /\ pc = "g_cwd_block"
    /\ LET k == patient_blocks[bidx]
           recs == IF content[k].pre THEN GroupBlockRecords(content[k]) ELSE <<>>
       IN /\ cwd_patients' = cwd_patients \o recs
          /\ cwd_src' = IF recs # <<>> THEN cwd_src \cup {k} ELSE cwd_src
    /\ bidx' = bidx + 1
    /\ pc' = LoopPc(bidx', patient_blocks, "g_cwd_block", "d_done")
    /\ UNCHANGED xvars
    /\ UNCHANGED <<content, patient_blocks, icw_src>>
    /\ UNCHANGED <<mvars, rvars>>

DocInit ==
    /\ MatcherIdle
    /\ RunIdle
    /\ ParserIdle
    /\ pc = "d_split"
    /\ content \in Documents
    /\ cwd_patients = <<>>
    /\ patient_blocks = <<>>
    /\ bidx = 1
    /\ icw_src = {}
    /\ cwd_src = {}

DocNext ==
    \/ DSplit \/ DBlock \/ DFilter
    \/ GIcwSplit \/ GIcwBlock \/ GCwdSplit \/ GCwdBlock

SpecDoc == DocInit /\ [][DocNext]_vars

----------------------------------------------------------------------------
(* A run of the script up to Figure 2: the discovery of the inputs, the    *)
(* grade statistics of Figure 1 and the position grids of Figure 2.  The   *)
(* rows of the file are read in the order of the file.                     *)

MaxRunRows == 3

\* A value whose float spacing is 2: adding 1 to it rounds.
BigAbg == 2 ^ MantissaBits

RunRow(g, px, py, v) == [Grade |-> g, PosX |-> px, PosY |-> py, AvgTotal |-> v]

\* The rows read: grade 1 at (0.5, 0.5) with five values, grade 1 at
\* (1.0, 0.5) and at (0.5, 1.0), a row of grade 2 and a row of grade 0.
RunRowDomain ==
    {RunRow(1, 5, 5, v) : v \in {1, 10, 20, 30, BigAbg}}
      \cup {RunRow(1, 10, 5, 10), RunRow(1, 5, 10, 10),
            RunRow(2, 5, 5, 20), RunRow(0, 5, 5, 30)}

CsvTables == UNION {[1 .. n -> RunRowDomain] : n \in 0 .. MaxRunRows}

Reverse(seq) == [k \in 1 .. Len(seq) |-> seq[Len(seq) + 1 - k]]

\* Series.std(): the sample standard deviation (ddof = 1), held as its
\* square; NaN when fewer than two values are selected.
RECURSIVE SumSqDev(_, _, _)
SumSqDev(rows, n, sum) ==
    IF rows = <<>> THEN 0
    ELSE (n * rows[1].AvgTotal - sum) * (n * rows[1].AvgTotal - sum)
           + SumSqDev(Tail(rows), n, sum)

PopulationVar(rows) ==
    IF rows = <<>> THEN NaN
    ELSE LET n == Len(rows)
         IN <<SumSqDev(rows, n, SumAvgTotal(rows)), n * n * n>>
SampleVar(rows) ==
    IF Len(rows) < 2 THEN NaN
    ELSE LET n == Len(rows)
         IN <<SumSqDev(rows, n, SumAvgTotal(rows)), n * n * (n - 1)>>

\* Lines 248-251: the grid of a grade, row len - 1 - i for positions[i].
HeatmapZeroWhereEmpty(rows, pos) ==
    LET n == Len(pos)
    IN [r \in 0 .. n - 1 |->
          [c \in 0 .. n - 1 |->
              LET cell == CellRows(rows, pos[c + 1], pos[n - 1 - r + 1])
              IN IF cell = <<>> THEN ZeroMap(n)[r][c] ELSE Mean(cell)]]
HeatmapOf(rows, pos) ==
    LET n == Len(pos)
    IN [r \in 0 .. n - 1 |->
          [c \in 0 .. n - 1 |->
              Mean(CellRows(rows, pos[c + 1], pos[n - 1 - r + 1]))]]

\* Lines 58-60.
RGlob ==
    /\ pc = "glob"
    /\ pc' = IF csv_files THEN "read_csv" ELSE "FileNotFoundError"
    /\ UNCHANGED <<mvars, xvars, dvars, rvars>>

\* Lines 69-70.
RReadCsv ==
    /\ pc = "read_csv"
    /\ df' = csv_table
    /\ pc' = "mkdir"
    /\ UNCHANGED <<grade, g_data, positions, i, j, error_map, min_error, best_pos,
                   best_positions>>
    /\ UNCHANGED <<xvars, dvars, rvars>>

\* Lines 72-73.
RMkdir ==
    /\ pc = "mkdir"
    /\ output_dir' = TRUE
    /\ pc' = "load_patients"
    /\ UNCHANGED <<csv_files, csv_table, patient_file, sim_means, sim_stds,
                   heatmap_data, figures, grids, prev_grids, run>>
    /\ UNCHANGED <<mvars, xvars, dvars>>

\* Line 186: load_all_patient_abg opens the clinical file (line 118); open
\* raises FileNotFoundError when it does not exist.
RLoadPatients ==
    /\ pc = "load_patients"
    /\ pc' = IF patient_file THEN "fig1" ELSE "FileNotFoundError"
    /\ UNCHANGED <<mvars, xvars, dvars, rvars>>

\* Lines 199-233: Figure 1.
RFig1 ==
    /\ pc = "fig1"
    /\ sim_means' = [k \in 1 .. Len(Grades) |-> Mean(GData(df, Grades[k]))]
    /\ sim_stds' = [k \in 1 .. Len(Grades) |-> SampleVar(GData(df, Grades[k]))]
    /\ figures' = figures \cup {"Fig1_Grade_Comparison"}
    /\ grade' = Grades[1]
    /\ pc' = "fig2"
    /\ UNCHANGED <<csv_files, csv_table, patient_file, output_dir, heatmap_data,
                   grids, prev_grids, run>>
    /\ UNCHANGED <<df, g_data, positions, i, j, error_map, min_error, best_pos,
                   best_positions>>
    /\ UNCHANGED <<xvars, dvars>>

\* Lines 240-274: one grade of the Figure 2 loop.
RFig2Grade ==
    /\ pc = "fig2"
    /\ LET gd == GData(df, grade)
           ps == SortedPosX(gd)
       IN /\ g_data' = gd
          /\ positions' = ps
          /\ heatmap_data' = HeatmapOf(gd, ps)
          /\ grids' = [g \in DOMAIN grids \cup {grade} |->
                          IF g = grade
                          THEN [positions |-> ps, heatmap_data |-> HeatmapOf(gd, ps)]
                          ELSE grids[g]]
    /\ IF grade < Grades[Len(Grades)]
       THEN grade' = grade + 1 /\ UNCHANGED pc
       ELSE pc' = "fig2_save" /\ UNCHANGED grade
    /\ UNCHANGED <<csv_files, csv_table, patient_file, output_dir, sim_means,
                   sim_stds, figures, prev_grids, run>>
    /\ UNCHANGED <<df, i, j, error_map, min_error, best_pos, best_positions>>
    /\ UNCHANGED <<xvars, dvars>>

\* Lines 277-282.
RFig2Save ==
    /\ pc = "fig2_save"
    /\ figures' = figures \cup {"Fig2_Position_Heatmap"}
    /\ pc' = "fig2_done"
    /\ UNCHANGED <<csv_files, csv_table, patient_file, output_dir, sim_means,
                   sim_stds, heatmap_data, grids, prev_grids, run>>
    /\ UNCHANGED <<mvars, xvars, dvars>>

\* The script is run a second time, on the same file or on the file with
\* its rows in the opposite order.
RRerun ==
    /\ pc = "fig2_done"
    /\ run = 1
    /\ run' = 2
    /\ prev_grids' = grids
    /\ csv_table' \in {csv_table, Reverse(csv_table)}
    /\ df' = <<>>
    /\ grade' = Grades[1]
    /\ g_data' = <<>>
    /\ positions' = <<>>
    /\ output_dir' = FALSE
    /\ sim_means' = <<>>
    /\ sim_stds' = <<>>
    /\ heatmap_data' = ZeroMap(0)
    /\ figures' = {}
    /\ grids' = [g \in {} |-> 0]
    /\ pc' = "glob"
    /\ UNCHANGED <<csv_files, patient_file>>
    /\ UNCHANGED <<i, j, error_map, min_error, best_pos, best_positions>>
    /\ UNCHANGED <<xvars, dvars>>

RunInit ==
    /\ MatcherIdle
    /\ ParserIdle
    /\ DocIdle
    /\ pc = "glob"
    /\ csv_files \in BOOLEAN
    /\ patient_file \in BOOLEAN
    /\ csv_table \in CsvTables
    /\ output_dir = FALSE
    /\ sim_means = <<>>
    /\ sim_stds = <<>>
    /\ heatmap_data = ZeroMap(0)
    /\ figures = {}
    /\ grids = [g \in {} |-> 0]
    /\ prev_grids = [g \in {} |-> 0]
    /\ run = 1

RunNext ==
    \/ RGlob \/ RReadCsv \/ RMkdir \/ RLoadPatients
    \/ RFig1 \/ RFig2Grade \/ RFig2Save \/ RRerun

SpecRun == RunInit /\ [][RunNext]_vars

----------------------------------------------------------------------------
(* The grid of a grade, read off the table.                                *)

GridCells(g) ==
    LET P == Elems(SortedPosX(GData(df, g))) IN {<<px, py>> : px \in P, py \in P}

CellMean(g, c) == Mean(CellRows(GData(df, g), c[1], c[2]))
CellError(g, c) == AbsError(CellMean(g, c), ClinicalTarget(g))
DefinedCells(g) == {c \in GridCells(g) : ~ IsNaN(CellMean(g, c))}
EmptyCells(g) == GridCells(g) \ DefinedCells(g)

\* a is scanned no later than c: ascending positionY, then ascending positionX.
ScannedNoLater(a, c) == a[2] < c[2] \/ (a[2] = c[2] /\ a[1] <= c[1])

\* The cells of the current grade the scan has already visited.
ScannedCells ==
    IF pc = "scan"
    THEN {c \in GridCells(grade) :
             /\ c # <<positions[j + 1], positions[i + 1]>>
             /\ ScannedNoLater(c, <<positions[j + 1], positions[i + 1]>>)}
    ELSE IF pc \in {"record", "plot", "ValueError", "done"} THEN GridCells(grade)
    ELSE {}

----------------------------------------------------------------------------
(* Claims about the matcher.                                               *)

\* C1 (as stated): for every grade matched, the recorded best position is
\* a grid cell with a defined mean whose absolute error is less than or
\* equal to that of every cell with a defined mean, and the recorded error
\* equals that minimal error.
C1_BestIsMinimalCell ==
    \A g \in DOMAIN best_positions :
        LET b == best_positions[g]
        IN /\ b.pos \in DefinedCells(g)
           /\ \A c \in DefinedCells(g) :
                 ~ FloatLess(CellError(g, c), CellError(g, b.pos))
           /\ FloatEq(b.error, CellError(g, b.pos))

\* C2: at every point of the scan and after it, the running best position
\* is the first cell in scan order (ascending positionY, then ascending
\* positionX) among the visited cells whose error equals the running
\* minimum: a later cell with an equal error never replaces it.
C2_FirstTieWins ==
    /\ \A c \in ScannedCells \cap DefinedCells(grade) :
          /\ ~ FloatLess(CellError(grade, c), min_error)
          /\ FloatEq(CellError(grade, c), min_error) => ScannedNoLater(best_pos, c)
    /\ \A g \in DOMAIN best_positions :
          \A c \in DefinedCells(g) :
              FloatEq(CellError(g, c), best_positions[g].error)
                  => ScannedNoLater(best_positions[g].pos, c)

\* C2's case: a grade has been matched in which another cell ties with the
\* recorded best position.
C2_Witness ==
    /\ pc = "plot"
    /\ \E c \in DefinedCells(grade) :
          /\ c # best_positions[grade].pos
          /\ FloatEq(CellError(grade, c), best_positions[grade].error)
          /\ c[1] < best_positions[grade].pos[1]

\* C3 (as stated): a grid cell with no contributing rows is never the
\* recorded best position, and the running minimum is never lowered by
\* one: it is +inf or the error of a cell with a defined mean.
C3_EmptyCellNeverBest ==
    /\ \A g \in DOMAIN best_positions : best_positions[g].pos \notin EmptyCells(g)
    /\ pc \in {"scan", "record", "plot"} =>
          \/ IsInf(min_error)
          \/ \E c \in ScannedCells \cap DefinedCells(grade) :
                FloatEq(min_error, CellError(grade, c))

----------------------------------------------------------------------------
(* Claims about the extraction of one side of a patient block.             *)

CanonicalSet == {25, 50, 100, 200, 300, 400}
CanonicalHz == {250, 500, 1000, 2000, 3000, 4000}

\* The frequencies present in both mappings of the side.
Common == DOMAIN bone \cap DOMAIN air

\* The side's ABG has just been derived from bone and air.
SideDone ==
    /\ pc \in {"x_side_done", "g_side_done"}
    /\ bone # EmptyMap
    /\ air # EmptyMap

\* The side's record has just been emitted: it is the last one.
Emitted == SideDone /\ abg_values # <<>>

LastRecord ==
    IF pc = "x_side_done" THEN all_patients[Len(all_patients)]
    ELSE icw_patients[Len(icw_patients)]

\* air[f] - bone[f], as IEEE arithmetic gives it.
DiffAt(f) ==
    IF IsNaN(air[f]) \/ IsNaN(bone[f]) THEN NaN ELSE <<air[f][1] - bone[f][1], 1>>

\* The differences at the frequencies F, in ascending order of frequency.
DiffsAt(F) == LET fs == SortSet(F) IN [k \in 1 .. Len(fs) |-> DiffAt(fs[k])]

HzOf(F) == LET fs == SortSet(F) IN [k \in 1 .. Len(fs) |-> fs[k] * 10]

RECURSIVE SumDiff(_)
SumDiff(F) ==
    IF F = {} THEN 0
    ELSE LET f == CHOOSE x \in F : TRUE IN DiffAt(f)[1] + SumDiff(F \ {f})

\* m is the arithmetic mean of the differences at the frequencies F.
IsMeanOver(m, F) ==
    IF \E f \in F : IsNaN(DiffAt(f)) THEN IsNaN(m)
    ELSE IsFinite(m) /\ m[1] * Cardinality(F) = SumDiff(F) * m[2]

\* C4 (as stated): for every frequency present in both mappings of a side
\* the derived ABG at that frequency is air - bone, and no other frequency
\* has a derived ABG.
C4_AbgAtEveryCommonFreq ==
    SideDone => abg_values = DiffsAt(Common)

\* C4 (amended): for every canonical frequency present in both mappings of
\* a side the derived ABG at that frequency is air - bone, listed under
\* that frequency, and no other frequency has a derived ABG.
C4_AbgAtCanonicalCommonFreq ==
    /\ SideDone => abg_values = DiffsAt(CanonicalSet \cap Common)
    /\ SideDone /\ pc = "x_side_done" => freqs_used = HzOf(CanonicalSet \cap Common)

\* C4's case: an ABG that is not zero was derived at a frequency of both
\* mappings, and another frequency is in one mapping only.
C4_Witness ==
    /\ SideDone
    /\ \E k \in 1 .. Len(abg_values) : IsFinite(abg_values[k]) /\ abg_values[k][1] # 0
    /\ \E f \in CanonicalSet : f \in DOMAIN air /\ f \notin DOMAIN bone

\* C5 (as stated): the meanAbg of an emitted record is the arithmetic mean
\* of air - bone over all the frequencies common to its two mappings.
C5_MeanOverCommonFreqs ==
    Emitted => IsMeanOver(LastRecord.avg_abg, Common)

\* C5 (amended): the meanAbg of an emitted record is the arithmetic mean of
\* air - bone over the canonical frequencies common to its two mappings; a
\* frequency missing from one mapping is in neither the sum nor the count.
C5_MeanOverCanonicalCommonFreqs ==
    Emitted => IsMeanOver(LastRecord.avg_abg, CanonicalSet \cap Common)

\* C5's case: a record is emitted from a common frequency while another
\* canonical frequency has a bone value but no air value.
C5_Witness ==
    /\ Emitted
    /\ Len(LastRecord.abg_values) = 1
    /\ IsFinite(LastRecord.avg_abg)
    /\ LastRecord.avg_abg[1] # 0
    /\ \E f \in CanonicalSet : f \in DOMAIN bone /\ f \notin DOMAIN air

\* C6: a frequency outside {0.25, 0.5, 1, 2, 3, 4} kHz never contributes:
\* the ABG list of a side has one entry per canonical common frequency,
\* every frequency recorded with it is canonical, and the mean of a record
\* is taken over as many values as the list holds.
C6_OnlyCanonicalFreqs ==
    /\ SideDone => Len(abg_values) = Cardinality(CanonicalSet \cap Common)
    /\ SideDone /\ pc = "x_side_done" => Elems(freqs_used) \subseteq CanonicalHz
    /\ \A k \in 1 .. Len(all_patients) :
          /\ Elems(all_patients[k].freqs) \subseteq CanonicalHz
          /\ Len(all_patients[k].abg_values) = Len(all_patients[k].freqs)
          /\ IsFinite(all_patients[k].avg_abg)
                => all_patients[k].avg_abg[2] = Len(all_patients[k].freqs)
    /\ Emitted /\ IsFinite(LastRecord.avg_abg)
          => LastRecord.avg_abg[2] = Cardinality(CanonicalSet \cap Common)

\* C6's case: 8 kHz has a bone and an air threshold and a record is emitted.
C6_Witness == Emitted /\ 800 \in Common

\* C8 (as stated): in the all-patient parser a side emits a record if and
\* only if a canonical frequency has both a bone and an air value, and
\* every emitted record has a non-empty ABG list and a defined meanAbg.
C8_RecordIffCommonFreq ==
    /\ pc = "x_side_done" =>
          ((\E k \in 1 .. Len(all_patients) :
                all_patients[k].id = <<block.id, Sides[side].side>>)
            <=> CanonicalSet \cap Common # {})
    /\ \A k \in 1 .. Len(all_patients) :
          /\ all_patients[k].abg_values # <<>>
          /\ ~ IsNaN(all_patients[k].avg_abg)

----------------------------------------------------------------------------
(* Claims about the parse of a whole report.                               *)

RECURSIVE Flatten(_)
Flatten(ss) == IF ss = <<>> THEN <<>> ELSE Head(ss) \o Flatten(Tail(ss))

AllBlocks(doc) == BlocksIn(doc, 1, Len(doc))

\* The all-patient parse has gone through the whole report.
AllParsed == pc \in {"d_filter", "g_icw", "g_icw_block", "g_cwd", "g_cwd_block", "d_done"}

\* The records of the blocks ks of doc that hold the pre-operative marker.
RecordsOfMarked(doc, ks) ==
    Flatten([n \in 1 .. Len(ks) |->
                IF doc[ks[n]].pre THEN BlockRecords(doc[ks[n]]) ELSE <<>>])

Fails(part) == FloatRaises(part.f) \/ FloatRaises(part.v)

LabelsOf(sd) == {Sides[sd].prefix_b, Sides[sd].prefix_a}

\* A well-formed block: the marker, no part that float() rejects, and for
\* at least one ear a canonical frequency with a bone and an air value.
WellFormed(b) ==
    /\ b.kind = "block"
    /\ b.pre
    /\ \A n \in 1 .. Len(b.lines) :
          \A m \in 1 .. Len(b.lines[n].parts) : ~ Fails(b.lines[n].parts[m])
    /\ BlockRecords(b) # <<>>

Markerless(b) == b.kind = "block" /\ ~ b.pre

\* The report is one well-formed block and one block without the marker,
\* the well-formed one being item w.
OneGoodOneMarkerless(w) ==
    /\ Len(AllBlocks(content)) = 2
    /\ w \in DOMAIN content
    /\ WellFormed(content[w])
    /\ \E m \in DOMAIN content : Markerless(content[m])

\* C7 (as stated): a report of one well-formed block and one block
\* without the pre-operative marker yields exactly one record.
C7_ExactlyOneRecord ==
    (AllParsed /\ \E w \in DOMAIN content : OneGoodOneMarkerless(w))
        => Len(all_patients) = 1

\* C7 (amended): a block without the pre-operative marker adds no record
\* and the parse goes on with the blocks after it, so at every point of
\* the loop the records are those of the marked blocks gone through; a
\* report of one well-formed block and one block without the marker yields
\* exactly the records of the well-formed block, one for each ear with a
\* common canonical frequency.
C7_MarkerlessBlockSkipped ==
    /\ pc = "d_block" =>
          all_patients = RecordsOfMarked(content, SubSeq(patient_blocks, 1, bidx - 1))
    /\ AllParsed => all_patients = RecordsOfMarked(content, AllBlocks(content))
    /\ \A w \in DOMAIN content :
          (AllParsed /\ OneGoodOneMarkerless(w)) =>
              /\ all_patients = BlockRecords(content[w])
              /\ Len(all_patients) \in {1, 2}

\* The parse is over for a report whose first block lacks the marker and
\* whose second block is well-formed with both ears: two records.
C7_Witness ==
    /\ AllParsed
    /\ \E w \in DOMAIN content :
          /\ OneGoodOneMarkerless(w)
          /\ \E m \in 1 .. w - 1 : Markerless(content[m])
    /\ Len(all_patients) = 2

\* The report with what fails to parse taken out: the parts float()
\* rejects and the blocks without the pre-operative marker.
StripLine(line) ==
    LET Keep(part) == ~ Fails(part)
    IN [line EXCEPT !.parts = SelectSeq(line.parts, Keep)]

StripBlock(b) == [b EXCEPT !.lines = [n \in 1 .. Len(b.lines) |-> StripLine(b.lines[n])]]

Strip(doc) ==
    LET Keep(it) == ~ Markerless(it)
        kept == SelectSeq(doc, Keep)
    IN [n \in 1 .. Len(kept) |-> StripBlock(kept[n])]

\* A line that fails as a whole: it has parts and float() rejects them all.
DeadLine(line) ==
    /\ line.parts # <<>>
    /\ \A m \in 1 .. Len(line.parts) : Fails(line.parts[m])

\* A block without the failed lines of the ear other than sd.
WithoutDeadLinesOfOtherEar(b, sd) ==
    LET Keep(line) == ~ (DeadLine(line) /\ line.labels \cap LabelsOf(sd) = {})
    IN [b EXCEPT !.lines = SelectSeq(b.lines, Keep)]

\* The records of a report none of whose blocks lacks the marker.
RecordsOf(doc) ==
    LET ks == AllBlocks(doc)
    IN Flatten([n \in 1 .. Len(ks) |-> BlockRecords(doc[ks[n]])])

\* The records of a report, each ear read as if the failed lines of the
\* other ear were not there.
RecordsEarByEar(doc) ==
    LET ks == AllBlocks(doc)
    IN Flatten([n \in 1 .. Len(ks) |->
                  IF doc[ks[n]].pre
                  THEN BlockSideRecords(WithoutDeadLinesOfOtherEar(doc[ks[n]], 1), 1)
                         \o BlockSideRecords(WithoutDeadLinesOfOtherEar(doc[ks[n]], 2), 2)
                  ELSE <<>>])

GroupRecordsOf(doc, sec) ==
    LET ks == BlocksIn(doc, sec[1], sec[2])
    IN Flatten([n \in 1 .. Len(ks) |-> GroupBlockRecords(doc[ks[n]])])

IcwRecordsOf(doc) ==
    IF Occurrences(doc, 1, Len(doc), "ICW") = {} THEN <<>>
    ELSE GroupRecordsOf(doc, IcwSection(doc))

CwdRecordsOf(doc) ==
    IF Occurrences(doc, 1, Len(doc), "CWD") = {} THEN <<>>
    ELSE GroupRecordsOf(doc, CwdSection(doc))

\* C9: a part, line or block that fails to parse never aborts the parse
\* and yields no value: the records of a report are those of the report
\* without the parts float() rejects and without the blocks lacking the
\* marker, each ear's record is what it is without the failed lines of
\* the other ear, and the same holds of the two group record lists.
C9_FailuresAbsorbed ==
    /\ AllParsed => all_patients = RecordsOf(Strip(content))
    /\ AllParsed => all_patients = RecordsEarByEar(content)
    /\ pc = "d_done" =>
          /\ icw_patients = IcwRecordsOf(Strip(content))
          /\ cwd_patients = CwdRecordsOf(Strip(content))

\* The parse is over for a report whose first block has rejected parts
\* next to good ones and a failed line for the left ear, followed by a
\* block without the marker and by a further block: the first block and
\* the last one both gave a record.
C9_Witness ==
    /\ AllParsed
    /\ Len(content) = 3
    /\ content[1].kind = "block" /\ content[1].pre
    /\ \E n \in 1 .. Len(content[1].lines) :
          LET ps == content[1].lines[n].parts
          IN /\ \E m \in 1 .. Len(ps) : Fails(ps[m])
             /\ \E m \in 1 .. Len(ps) : ~ Fails(ps[m])
    /\ \E n \in 1 .. Len(content[1].lines) : DeadLine(content[1].lines[n])
    /\ BlockRecords(content[1]) # <<>>
    /\ Markerless(content[2])
    /\ WellFormed(content[3])
    /\ Len(all_patients) = Len(BlockRecords(content[1])) + Len(BlockRecords(content[3]))

\* C10: in the group parse no patient block adds a record to both the ICW
\* records and the CWD records, whatever the order and number of the two
\* section markers.
C10_GroupsDisjoint == icw_src \cap cwd_src = {}

\* What a group record holds of an all-patient record.
GroupView(recs) ==
    [n \in 1 .. Len(recs) |->
        [avg_abg |-> recs[n].avg_abg, abg_values |-> recs[n].abg_values]]

\* The report is an ICW marker followed by patient blocks only, so the
\* ICW section holds every block of the report.
AllBlocksInIcw ==
    /\ Len(content) >= 2
    /\ content[1].kind = "ICW"
    /\ \A k \in 2 .. Len(content) : content[k].kind = "block"

\* C11: the group parser extracts from a block what the all-patient
\* parser extracts: for a report whose blocks all lie in the ICW section,
\* the ICW records hold the ABG values and the mean of the all-patient
\* records, block by block and ear by ear, also when a prefix label comes
\* on more than one line of a pre-operative section.
C11_SameExtraction ==
    (pc = "d_done" /\ AllBlocksInIcw) => icw_patients = GroupView(all_patients)

----------------------------------------------------------------------------
(* Claims about a run of the script.                                       *)

\* Figure 1 has been computed in this run.
Fig1Done == pc \in {"fig2", "fig2_save", "fig2_done"}

\* The rows of the table whose grade is g, in the order of the table.
RowsOfGrade(g) == LET Keep(r) == r.Grade = g IN SelectSeq(df, Keep)

AvgTotals(rows) == [k \in 1 .. Len(rows) |-> rows[k].AvgTotal]

\* v is the square of the sample standard deviation of the AvgTotal of
\* rows: the squared deviations from the mean sum/n, which are the
\* (n x - sum)^2 over n^2, summed and divided by n - 1.
IsSampleVarOf(v, rows) ==
    LET n == Len(rows)
    IN IF n < 2 THEN IsNaN(v)
       ELSE /\ v[1] = SumSqDev(rows, n, SumAvgTotal(rows))
            /\ v[2] = n * n * (n - 1)

\* C12: for each grade of 1..4 the mean and the sample standard deviation
\* (n - 1 denominator) of Figure 1 are those of the AvgTotal of exactly the
\* rows of that grade, rows of grade 0 contribute to no grade, and rows
\* [10, 20, 30] of a grade give the mean 20 and the standard deviation 10.
C12_GradeStatistics ==
    Fig1Done =>
        \A k \in 1 .. Len(Grades) :
            LET rows == RowsOfGrade(Grades[k])
            IN /\ Grades[k] # 0
               /\ sim_means[k] = (IF rows = <<>> THEN NaN
                                  ELSE <<SumAvgTotal(rows), Len(rows)>>)
               /\ IsSampleVarOf(sim_stds[k], rows)
               /\ AvgTotals(rows) = <<10, 20, 30>> =>
                     /\ FloatEq(sim_means[k], <<20, 1>>)
                     /\ FloatEq(sim_stds[k], <<10 * 10, 1>>)

\* Figure 1 is computed for a table with a row of grade 0, a row of
\* grade 2 and the rows 10, 30 of grade 1.
C12_Witness ==
    /\ Fig1Done
    /\ \E k \in 1 .. Len(df) : df[k].Grade = 0
    /\ Len(RowsOfGrade(1)) = 2
    /\ FloatEq(sim_means[1], <<20, 1>>)
    /\ FloatEq(sim_stds[1], <<200, 1>>)

\* The same for the rows 10, 20, 30 of grade 1.
C12_WitnessExample ==
    /\ Fig1Done
    /\ AvgTotals(RowsOfGrade(1)) = <<10, 20, 30>>

\* C13: the standard deviation of a grade with exactly one row is the
\* undefined value NaN, which differs from 0 and compares unequal to it.
C13_SingleRowStdUndefined ==
    Fig1Done =>
        \A k \in 1 .. Len(Grades) :
            Len(RowsOfGrade(Grades[k])) = 1 =>
                /\ IsNaN(sim_stds[k])
                /\ sim_stds[k] # <<0, 1>>
                /\ ~ FloatEq(sim_stds[k], <<0, 1>>)

\* Figure 1 is computed for a table with exactly one row of grade 2 and
\* several rows of grade 1.
C13_Witness ==
    /\ Fig1Done
    /\ Len(RowsOfGrade(2)) = 1
    /\ Len(RowsOfGrade(1)) = 2
    /\ IsNaN(sim_stds[2])
    /\ IsFinite(sim_stds[1])

\* The rows of the table of grade g at the position (px, py).
RowsAt(g, px, py) ==
    LET Keep(r) == r.Grade = g /\ r.PosX = px /\ r.PosY = py
    IN SelectSeq(df, Keep)

\* The cell of the grid gr for the position (positions[jj + 1],
\* positions[ii + 1]): the rows of the grid are listed from the last
\* position to the first.
GridCell(gr, ii, jj) == gr.heatmap_data[Len(gr.positions) - 1 - ii][jj]

\* C14: each cell of the grid of a grade holds the mean AvgTotal of all
\* the rows of that grade at the position of the cell, and a cell no row
\* falls in holds NaN: never the 0 the grid was first filled with.
C14_CellsHoldMeanOrNaN ==
    \A g \in DOMAIN grids :
        LET ps == grids[g].positions
        IN \A ii, jj \in 0 .. Len(ps) - 1 :
              LET rows == RowsAt(g, ps[jj + 1], ps[ii + 1])
                  cell == GridCell(grids[g], ii, jj)
              IN IF rows = <<>>
                 THEN IsNaN(cell) /\ cell # <<0, 1>>
                 ELSE cell = <<SumAvgTotal(rows), Len(rows)>>

\* The grid of grade 1 is computed for the positions 0.5 and 1.0: the cell
\* (0.5, 0.5) averages two rows and the cell (1.0, 1.0) has none.
C14_Witness ==
    /\ 1 \in DOMAIN grids
    /\ grids[1].positions = <<5, 10>>
    /\ Len(RowsAt(1, 5, 5)) = 2
    /\ FloatEq(GridCell(grids[1], 0, 0), <<20, 1>>)
    /\ RowsAt(1, 10, 10) = <<>>
    /\ IsNaN(GridCell(grids[1], 1, 1))

\* C15: the grid of a grade has a column for every distinct PosX and a
\* row for every distinct PosY of the rows of that grade, so every row of
\* the grade falls in exactly one cell of the grid.
C15_GridCoversRecords ==
    \A g \in DOMAIN grids :
        LET rows == RowsOfGrade(g)
            ps == grids[g].positions
        IN \A k \in 1 .. Len(rows) :
              /\ rows[k].PosX \in Elems(ps)
              /\ rows[k].PosY \in Elems(ps)
              /\ Cardinality({c \in (1 .. Len(ps)) \X (1 .. Len(ps)) :
                                 ps[c[2]] = rows[k].PosX /\ ps[c[1]] = rows[k].PosY}) = 1

\* C16: the aggregator is deterministic and independent of the order of
\* the rows: a second run of the script, on the same file or on the file
\* with its rows in another order, yields the position lists and the
\* grids of the first run.
C16_SameGridsOnRerun ==
    (run = 2 /\ pc = "fig2_done") => grids = prev_grids

\* The report without the parts whose value is the literal nan.
DropNanLine(line) ==
    LET Keep(part) == part.v # "nan"
    IN [line EXCEPT !.parts = SelectSeq(line.parts, Keep)]

DropNan(doc) ==
    [n \in 1 .. Len(doc) |->
        [doc[n] EXCEPT !.lines = [m \in 1 .. Len(doc[n].lines) |->
                                     DropNanLine(doc[n].lines[m])]]]

\* The ABG values of the records never hold NaN here: no part of the
\* reports read spells its value NaN otherwise than as the literal nan.
NoNanIn(recs) ==
    \A n \in 1 .. Len(recs) :
        /\ ~ IsNaN(recs[n].avg_abg)
        /\ \A m \in 1 .. Len(recs[n].abg_values) : ~ IsNaN(recs[n].abg_values[m])

\* C17: a part whose value is the literal nan is discarded: the records
\* of both parsers are those of the report without such parts (its
\* frequency is absent from the mapping unless another part gives it), and
\* no ABG value and no mean of a record comes from it.
C17_NanLiteralDiscarded ==
    /\ AllParsed =>
          /\ all_patients = RecordsOfMarked(DropNan(content), AllBlocks(content))
          /\ NoNanIn(all_patients)
    /\ pc = "d_done" =>
          /\ icw_patients = IcwRecordsOf(Strip(DropNan(content)))
          /\ cwd_patients = CwdRecordsOf(Strip(DropNan(content)))
          /\ NoNanIn(icw_patients) /\ NoNanIn(cwd_patients)

\* The parse is over for a report whose block has 'R_B 2kHz=nan' next to
\* 'R_A 2kHz=30' and a left bone line holding nothing but a nan part: one
\* record, for the right ear, with the ABG at 1 kHz alone.
C17_Witness ==
    /\ AllParsed
    /\ Len(content) = 1
    /\ content[1].kind = "block" /\ content[1].pre
    /\ \E n \in 1 .. Len(content[1].lines) :
          \E m \in 1 .. Len(content[1].lines[n].parts) :
              content[1].lines[n].parts[m] = Part("2", "nan")
    /\ Len(all_patients) = 1
    /\ all_patients[1].freqs = <<1000>>
    /\ all_patients[1].abg_values = <<<<20, 1>>>>

\* C18: when an input is missing (no simulation file matches, or the
\* clinical file does not exist) the run ends with the fatal error before
\* any computation or side effect: no table is loaded, no output
\* directory is created, no aggregate is computed, no figure is written.
C18_AbortsBeforeAnyEffect ==
    pc = "FileNotFoundError" =>
        /\ df = <<>>
        /\ ~ output_dir
        /\ sim_means = <<>> /\ sim_stds = <<>>
        /\ DOMAIN grids = {}
        /\ figures = {}

\* C19: once the matcher has run for a grade, the recorded best position
\* is a cell of the grid of that grade with at least one row and the
\* recorded error is finite and >= 0, also when the grade has no rows or
\* every cell is undefined, so the lookup of the best position in the
\* position list never fails.
C19_RecordedBestIsDefinedCell ==
    /\ pc # "ValueError"
    /\ pc = "plot" =>
          /\ best_positions[grade].pos \in DefinedCells(grade)
          /\ IsFinite(best_positions[grade].error)
          /\ best_positions[grade].error[1] >= 0

====
